---- MODULE Spec2Model ----
(***************************************************************************)
(* Git status cache, status classification, palette and status rendering   *)
(* of lsd (src/git.rs, src/meta/git_file_status.rs, src/color.rs).         *)
(*                                                                         *)
(* Spec        the status cache: GitCache::new followed by GitCache::get   *)
(* SpecStatus  classification of raw git2 status flags and the comparison  *)
(*             of the resulting GitStatus values                           *)
(* SpecColors  Colors::new, the palette completeness tests and             *)
(*             GitFileStatus::render                                       *)
(***************************************************************************)
EXTENDS Integers, Sequences, FiniteSets, TLC

VARIABLES
    pc,            \* "start" | "built" | "panicked": life of the GitCache
    statuses,      \* GitCache.statuses: sequence of [path, status]
    cached_dir,    \* GitCache._cached_dir: NoPath or a path
    backend,       \* the outcomes the file system and git2 gave GitCache::new
    query,         \* Nil or the arguments of the last GitCache::get
    result,        \* Nil or the value the last GitCache::get returned
    raw,           \* a git2::Status value handed to the classifiers
    classified,    \* Nil or [file, staged]: what the two classifiers made of raw
    compared,      \* Nil or [a, b, ordering]: one comparison of GitStatus values
    combined,      \* Nil or [a, b, c, ab, ba, ab_c, a_bc]: status pairs combined
    theme,         \* NoneVal or the Theme given to Colors::new
    colors,        \* Colors.colors: Nil or the palette
    lscolors,      \* Colors.lscolors: Nil or the LS_COLORS database
    tested,        \* Nil or [test, missing]: outcome of a completeness test
    rendered       \* Nil or [status, out]: one GitFileStatus::render call

vars == <<pc, statuses, cached_dir, backend, query, result, raw, classified,
          compared, combined, theme, colors, lscolors, tested, rendered>>

cacheVars == <<pc, statuses, cached_dir, backend, query, result>>
statusVars == <<raw, classified, compared, combined>>
colorVars == <<theme, colors, lscolors, tested, rendered>>

\* Option::None, for a value that is a record, a path or a name when present
Nil == [nil |-> TRUE]
NoPath == <<"None">>
NoneVal == "None"

(***************************************************************************)
(* Bounds                                                                  *)
(***************************************************************************)
\* longest status list the git backend reports in the model
MaxEntries == 2

(***************************************************************************)
(* std::path: a path is a sequence of characters; comparisons go through   *)
(* its components.                                                         *)
(***************************************************************************)
Sep == "/"

\* the pieces of p between separators, empty pieces included
RECURSIVE RawPieces(_, _)
RawPieces(p, cur) ==
    IF p = <<>> THEN <<cur>>
    ELSE IF Head(p) = Sep THEN <<cur>> \o RawPieces(Tail(p), <<>>)
    ELSE RawPieces(Tail(p), Append(cur, Head(p)))

RECURSIVE DropEmptyAndDot(_)
DropEmptyAndDot(pieces) ==
    IF pieces = <<>> THEN <<>>
    ELSE IF Head(pieces) = <<>> \/ Head(pieces) = <<".">>
         THEN DropEmptyAndDot(Tail(pieces))
         ELSE <<Head(pieces)>> \o DropEmptyAndDot(Tail(pieces))

has_root(p) == p # <<>> /\ Head(p) = Sep

\* Path::components: RootDir for a leading separator, a leading "." kept as
\* CurDir, then the normal components; repeated separators, a trailing
\* separator and inner "." are skipped.
Components(p) ==
    LET pieces == RawPieces(p, <<>>)
        lead == IF has_root(p) THEN << <<Sep>> >>
                ELSE IF Head(pieces) = <<".">> THEN << <<".">> >>
                ELSE <<>>
    IN lead \o DropEmptyAndDot(pieces)

\* a mutated starts_with: a prefix test on the characters of the path
PathStartsWithChars(p, base) ==
    /\ Len(base) <= Len(p)
    /\ SubSeq(p, 1, Len(base)) = base

\* Path::starts_with: base's components are an initial run of p's components
RECURSIVE IterAfter(_, _)
IterAfter(iter, prefix) ==
    IF prefix = <<>> THEN TRUE
    ELSE IF iter = <<>> THEN FALSE
    ELSE IF Head(iter) # Head(prefix) THEN FALSE
    ELSE IterAfter(Tail(iter), Tail(prefix))

PathStartsWith(p, base) == IterAfter(Components(p), Components(base))

\* PartialEq for PathBuf: equal component sequences
PathEq(p, q) == Components(p) = Components(q)

\* Path::join: an absolute argument replaces the base, otherwise it is
\* appended, after a separator when the base does not end with one
PathJoin(base, rel) ==
    IF has_root(rel) THEN rel
    ELSE IF base # <<>> /\ base[Len(base)] # Sep THEN base \o <<Sep>> \o rel
    ELSE base \o rel

(***************************************************************************)
(* git2::Status: a set of flags                                            *)
(***************************************************************************)
IndexFlags == {"INDEX_NEW", "INDEX_MODIFIED", "INDEX_DELETED", "INDEX_RENAMED",
               "INDEX_TYPECHANGE"}
WorkdirFlags == {"WT_NEW", "WT_MODIFIED", "WT_DELETED", "WT_TYPECHANGE",
                 "WT_RENAMED", "IGNORED", "CONFLICTED"}
AllFlags == IndexFlags \cup WorkdirFlags

\* Status::contains
contains(s, flag) == flag \in s

(***************************************************************************)
(* src/git.rs: GitStatus, GitStagedStatus                                  *)
(***************************************************************************)
\* the variants of git.rs's GitStatus in declaration order; the derived Ord
\* compares the positions
GitStatus == <<"Unmodified", "Ignored", "New", "Typechange", "Deleted",
               "Renamed", "Modified", "Conflicted">>

GitStatusValues == {GitStatus[i] : i \in DOMAIN GitStatus}

discriminant(s) == CHOOSE i \in DOMAIN GitStatus : GitStatus[i] = s

\* Ord::cmp derived for GitStatus
cmp(a, b) ==
    IF discriminant(a) < discriminant(b) THEN "Less"
    ELSE IF discriminant(a) = discriminant(b) THEN "Equal"
    ELSE "Greater"

\* std::cmp::max
max(a, b) == IF cmp(a, b) = "Greater" THEN a ELSE b

GitStagedStatus_default == [index |-> "Unmodified", workdir |-> "Unmodified"]

GitStagedStatus_index(status) ==
    IF contains(status, "INDEX_NEW") THEN "New"
    ELSE IF contains(status, "INDEX_DELETED") THEN "Deleted"
    ELSE IF contains(status, "INDEX_MODIFIED") THEN "Modified"
    ELSE IF contains(status, "INDEX_RENAMED") THEN "Renamed"
    ELSE IF contains(status, "INDEX_TYPECHANGE") THEN "Typechange"
    ELSE "Unmodified"

GitStagedStatus_workdir(status) ==
    IF contains(status, "WT_NEW") THEN "New"
    ELSE IF contains(status, "WT_DELETED") THEN "Deleted"
    ELSE IF contains(status, "WT_MODIFIED") THEN "Modified"
    ELSE IF contains(status, "WT_RENAMED") THEN "Renamed"
    ELSE IF contains(status, "IGNORED") THEN "Ignored"
    ELSE IF contains(status, "WT_TYPECHANGE") THEN "Typechange"
    ELSE IF contains(status, "CONFLICTED") THEN "Conflicted"
    ELSE "Unmodified"

GitStagedStatus_new(status) ==
    [index |-> GitStagedStatus_index(status),
     workdir |-> GitStagedStatus_workdir(status)]

(***************************************************************************)
(* src/meta/git_file_status.rs: GitFileStatus. Its fields are of the       *)
(* GitStatus type that has the variants Default, NewInIndex and            *)
(* NewInWorkdir, the type color.rs builds its palette for.                 *)
(***************************************************************************)
GitFileStatus_default == [index |-> "Default", workdir |-> "Default"]

GitFileStatus_index(status) ==
    IF contains(status, "INDEX_NEW") THEN "NewInIndex"
    ELSE IF contains(status, "INDEX_DELETED") THEN "Deleted"
    ELSE IF contains(status, "INDEX_MODIFIED") THEN "Modified"
    ELSE IF contains(status, "INDEX_RENAMED") THEN "Renamed"
    ELSE IF contains(status, "INDEX_TYPECHANGE") THEN "Typechange"
    ELSE "Unmodified"

\* a mutated workdir classification: CONFLICTED is tested first
GitFileStatus_workdir_conflicted_first(status) ==
    IF contains(status, "CONFLICTED") THEN "Conflicted"
    ELSE IF contains(status, "WT_NEW") THEN "NewInWorkdir"
    ELSE IF contains(status, "WT_DELETED") THEN "Deleted"
    ELSE IF contains(status, "WT_MODIFIED") THEN "Modified"
    ELSE IF contains(status, "WT_RENAMED") THEN "Renamed"
    ELSE IF contains(status, "IGNORED") THEN "Ignored"
    ELSE IF contains(status, "WT_TYPECHANGE") THEN "Typechange"
    ELSE "Unmodified"

GitFileStatus_workdir(status) ==
    IF contains(status, "WT_NEW") THEN "NewInWorkdir"
    ELSE IF contains(status, "WT_DELETED") THEN "Deleted"
    ELSE IF contains(status, "WT_MODIFIED") THEN "Modified"
    ELSE IF contains(status, "WT_RENAMED") THEN "Renamed"
    ELSE IF contains(status, "IGNORED") THEN "Ignored"
    ELSE IF contains(status, "WT_TYPECHANGE") THEN "Typechange"
    ELSE IF contains(status, "CONFLICTED") THEN "Conflicted"
    ELSE "Unmodified"

GitFileStatus_new(status) ==
    [index |-> GitFileStatus_index(status),
     workdir |-> GitFileStatus_workdir(status)]

(***************************************************************************)
(* src/git.rs: GitCache                                                    *)
(***************************************************************************)
GitCache_empty == [statuses |-> <<>>, _cached_dir |-> NoPath]

\* a mutated closure: the index of the later entry replaces the maximum
combine_last_index(acc, x) ==
    [index |-> x.index, workdir |-> max(acc.workdir, x.workdir)]

\* the closure of the fold of GitCache::get
combine(acc, x) ==
    [index |-> max(acc.index, x.index), workdir |-> max(acc.workdir, x.workdir)]

RECURSIVE fold(_, _)
fold(xs, acc) ==
    IF xs = <<>> THEN acc ELSE fold(Tail(xs), combine(acc, Head(xs)))

\* a mutated lookup: the first entry whose path lies under filepath
RECURSIVE find_under(_, _)
find_under(xs, filepath) ==
    IF xs = <<>> THEN Nil
    ELSE IF PathStartsWith(Head(xs).path, filepath) THEN Head(xs)
    ELSE find_under(Tail(xs), filepath)

\* Iterator::find with the predicate filepath == &x.0
RECURSIVE find(_, _)
find(xs, filepath) ==
    IF xs = <<>> THEN Nil
    ELSE IF PathEq(filepath, Head(xs).path) THEN Head(xs)
    ELSE find(Tail(xs), filepath)

\* the is_directory branch of GitCache::get
get_directory(stats, filepath) ==
    LET kept == SelectSeq(stats, LAMBDA x : PathStartsWith(x.path, filepath))
        mapped == [i \in DOMAIN kept |-> GitStagedStatus_new(kept[i].status)]
    IN fold(mapped, GitStagedStatus_default)

\* the other branch of GitCache::get
get_file(stats, filepath) ==
    LET e == find(stats, filepath)
    IN IF e = Nil THEN GitStagedStatus_default
       ELSE GitStagedStatus_new(e.status)

GitCache_get(self, filepath, is_directory) ==
    IF is_directory THEN get_directory(self.statuses, filepath)
    ELSE get_file(self.statuses, filepath)

(***************************************************************************)
(* The inputs of the cache model                                           *)
(***************************************************************************)
\* the working directory git2 reports, with its trailing separator
WorkDir == <<"/", "r", "/">>

\* paths git2 reports, relative to the working directory
RelPaths == { <<"a", "/", "x">>, <<"a", "/", "y">>, <<"a", "b", "/", "x">> }

\* status values git2 reports for an entry
EntryStatuses ==
    { {"INDEX_NEW", "WT_NEW"}, {"WT_MODIFIED"}, {"CONFLICTED"},
      {"WT_MODIFIED", "CONFLICTED"},
      {"INDEX_MODIFIED", "IGNORED"} }

\* a status entry: its path is NoPath when it is not valid UTF-8
StatusEntries == [path : RelPaths \cup {NoPath}, status : EntryStatuses]

StatusLists == UNION { [1..n -> StatusEntries] : n \in 0..MaxEntries }

\* the file system fs::canonicalize looks at: its directories, by their
\* canonical paths, the symbolic links with their targets, and the
\* directory the process runs in
FsDirs ==
    { <<"/">>, <<"/", "r">>, <<"/", "r", "/", "a">>, <<"/", "r", "/", "a", "b">> }

FsSymlinks == [p \in { <<"/", "l", "i", "n", "k">> } |-> <<"/", "r">>]

Cwd == <<"/", "r">>

\* the absolute path made of normal components, without a trailing separator
RECURSIVE PathOf(_)
PathOf(comps) ==
    IF comps = <<>> THEN <<Sep>>
    ELSE IF Len(comps) = 1 THEN <<Sep>> \o Head(comps)
    ELSE <<Sep>> \o Head(comps) \o PathOf(Tail(comps))

\* walk the components left to right: ".." steps to the parent, a link is
\* replaced by its target, a name that does not exist is an error (NoPath)
RECURSIVE Resolve(_, _)
Resolve(done, rest) ==
    IF rest = <<>> THEN PathOf(done)
    ELSE LET c == Head(rest)
             next == PathOf(Append(done, c))
         IN IF c = <<".", ".">>
            THEN Resolve(IF done = <<>> THEN <<>>
                         ELSE SubSeq(done, 1, Len(done) - 1), Tail(rest))
            ELSE IF next \in DOMAIN FsSymlinks
            THEN Resolve(Tail(Components(FsSymlinks[next])), Tail(rest))
            ELSE IF next \in FsDirs THEN Resolve(Append(done, c), Tail(rest))
            ELSE NoPath

\* fs::canonicalize: the absolute path with links and ".." resolved, NoPath
\* for Err; the empty path is an error (not found), it does not stand for
\* the current directory
fs_canonicalize(path) ==
    LET abs == IF has_root(path) THEN path ELSE PathJoin(Cwd, path)
    IN IF path = <<>> THEN NoPath
       ELSE Resolve(<<>>, Tail(Components(abs)))

\* the directory GitCache::new is called with: canonical, through a link,
\* with "..", relative, one that does not exist, and the empty path
InputPaths ==
    { <<>>, <<"/", "r">>, <<"/", "l", "i", "n", "k">>,
      <<"/", "l", "i", "n", "k", "/", "a">>,
      <<"/", "r", "/", "a", "/", ".", ".">>, <<".">>, <<"/", "q">> }

\* paths GitCache::get is asked about
QueryPaths ==
    { <<"/", "r">>, <<"/", "r", "/", "a">>, <<"/", "r", "/", "a", "/">>,
      <<"/", "r", "/", "a", "/", "x">>, <<"/", "r", "/", "a", "b">>, <<"/", "q">> }

\* the loop of GitCache::new over the status list
pushed(workdir, list) ==
    [i \in DOMAIN list |-> [path |-> PathJoin(workdir, list[i].path),
                            status |-> list[i].status]]

(***************************************************************************)
(* GitCache::new(path). canonicalize is the outcome of fs::canonicalize:   *)
(* the canonical path, or NoPath for Err; it is what the cache keeps.      *)
(* discover is the outcome of Repository::discover(path), workdir of       *)
(* Repository::workdir,                                                    *)
(* enumerate of Repository::statuses and list the entries it gives. The    *)
(* two unwrap() calls panic: no cache is returned then.                    *)
(***************************************************************************)
GitCache_new(path, canonicalize, discover, workdir, enumerate, list) ==
    /\ IF canonicalize = NoPath THEN
            /\ pc' = "panicked"
            /\ backend' = "canonicalize_err"
            /\ statuses' = <<>>
            /\ cached_dir' = NoPath
       ELSE IF discover = "Err" THEN
            /\ pc' = "built"
            /\ backend' = "discovery_err"
            /\ statuses' = GitCache_empty.statuses
            /\ cached_dir' = GitCache_empty._cached_dir
       ELSE IF workdir = NoPath THEN
            /\ pc' = "built"
            /\ backend' = "no_workdir"
            /\ statuses' = GitCache_empty.statuses
            /\ cached_dir' = GitCache_empty._cached_dir
       ELSE IF enumerate = "Err" THEN
            /\ pc' = "built"
            /\ backend' = "statuses_err"
            /\ statuses' = <<>>
            /\ cached_dir' = canonicalize
       ELSE IF \E i \in DOMAIN list : list[i].path = NoPath THEN
            /\ pc' = "panicked"
            /\ backend' = "path_not_utf8"
            /\ statuses' = <<>>
            /\ cached_dir' = NoPath
       ELSE
            /\ pc' = "built"
            /\ backend' = "ok"
            /\ statuses' = pushed(workdir, list)
            /\ cached_dir' = canonicalize
    /\ UNCHANGED <<query, result>>
    /\ UNCHANGED statusVars
    /\ UNCHANGED colorVars

New ==
    /\ pc = "start"
    /\ \E path \in InputPaths, discover \in {"Ok", "Err"},
          workdir \in {WorkDir, NoPath}, enumerate \in {"Ok", "Err"},
          list \in StatusLists :
            \E canonicalize \in {fs_canonicalize(path), NoPath} :
                GitCache_new(path, canonicalize, discover, workdir, enumerate, list)

\* GitCache::get(filepath, is_directory) on the cache that was built
Get ==
    /\ pc = "built"
    /\ \E filepath \in QueryPaths, is_directory \in BOOLEAN :
        /\ query' = [filepath |-> filepath, is_directory |-> is_directory]
        /\ result' = GitCache_get([statuses |-> statuses, _cached_dir |-> cached_dir],
                                  filepath, is_directory)
    /\ UNCHANGED <<pc, statuses, cached_dir, backend>>
    /\ UNCHANGED statusVars
    /\ UNCHANGED colorVars

IdleStatus ==
    /\ raw = {}
    /\ classified = Nil
    /\ compared = Nil
    /\ combined = Nil

IdleColors ==
    /\ theme = NoneVal
    /\ colors = Nil
    /\ lscolors = Nil
    /\ tested = Nil
    /\ rendered = Nil

IdleCache ==
    /\ pc = "start"
    /\ statuses = <<>>
    /\ cached_dir = NoPath
    /\ backend = NoneVal
    /\ query = Nil
    /\ result = Nil

Init == IdleCache /\ IdleStatus /\ IdleColors

Next == New \/ Get

Spec == Init /\ [][Next]_vars

(***************************************************************************)
(* Properties of the status cache (specification Spec)                     *)
(***************************************************************************)
\* stored lies in directory dir: dir's components are the first components
\* of stored
Contained(stored, dir) ==
    LET cs == Components(stored)
        cd == Components(dir)
    IN Len(cd) <= Len(cs) /\ SubSeq(cs, 1, Len(cd)) = cd

\* the greatest status of a non-empty set in the order of GitStatus
Greatest(S) == CHOOSE s \in S : \A t \in S : discriminant(t) <= discriminant(s)

InsideQuery == {i \in DOMAIN statuses : Contained(statuses[i].path, query.filepath)}

EqualToQuery ==
    {i \in DOMAIN statuses : Components(statuses[i].path) = Components(query.filepath)}

Asked(is_directory) == query # Nil /\ query.is_directory = is_directory

\* C1: get(P, true) returns, field by field, the greatest index status and the
\* greatest workdir status over exactly the stored paths that P contains by
\* whole components; with no such path it returns the seed of the fold, so
\* stored paths outside P never influence the result.
C1_DirectoryIsMaxOverContained ==
    Asked(TRUE) =>
        IF InsideQuery = {} THEN result = GitStagedStatus_default
        ELSE /\ result.index =
                  Greatest({GitStagedStatus_new(statuses[i].status).index : i \in InsideQuery})
             /\ result.workdir =
                  Greatest({GitStagedStatus_new(statuses[i].status).workdir : i \in InsideQuery})

\* C1 witness: a/x is New in the workdir, a/y is Modified, and the directory a
\* is reported Modified
C1_Witness ==
    /\ Asked(TRUE)
    /\ query.filepath = <<"/", "r", "/", "a">>
    /\ Len(statuses) = 2
    /\ statuses[1].path = <<"/", "r", "/", "a", "/", "x">>
    /\ GitStagedStatus_new(statuses[1].status).workdir = "New"
    /\ statuses[2].path = <<"/", "r", "/", "a", "/", "y">>
    /\ GitStagedStatus_new(statuses[2].status).workdir = "Modified"
    /\ result.workdir = "Modified"

\* C2: a cache built where no repository is found, or where the repository has
\* no working directory, is empty, and every get on it returns
\* {Default, Default}.
C2_EmptyCacheReturnsDefaultDefault ==
    (backend \in {"discovery_err", "no_workdir"} /\ query # Nil) =>
        /\ statuses = <<>>
        /\ result = [index |-> "Default", workdir |-> "Default"]

\* C5: get(P, false) returns the classification of the first entry stored
\* under a path equal to P, whatever is stored below or beside P, and the
\* default pair when no stored path equals P.
C5_FileIsExactMatch ==
    Asked(FALSE) =>
        IF EqualToQuery = {} THEN result = GitStagedStatus_default
        ELSE LET first == CHOOSE i \in EqualToQuery : \A j \in EqualToQuery : i <= j
             IN result = GitStagedStatus_new(statuses[first].status)

\* C5 witness: a/x is stored as Modified beside a conflicted a/y, and get on
\* a/x returns a/x's own status
C5_Witness ==
    /\ Asked(FALSE)
    /\ query.filepath = <<"/", "r", "/", "a", "/", "x">>
    /\ Len(statuses) = 2
    /\ statuses[1].path = <<"/", "r", "/", "a", "/", "y">>
    /\ statuses[1].status = {"CONFLICTED"}
    /\ statuses[2].path = <<"/", "r", "/", "a", "/", "x">>
    /\ statuses[2].status = {"WT_MODIFIED"}
    /\ result = [index |-> "Unmodified", workdir |-> "Modified"]

\* C8: building the cache always completes and returns a cache, whatever the
\* file system and the git backend answer, and every later query on it returns
\* a status pair.
C8_NewNeverFails ==
    /\ pc # "panicked"
    /\ (query # Nil => result # Nil)

\* C10: when a stored path contained in the queried directory carries the
\* CONFLICTED flag, get(directory, true) reports Conflicted, whatever other
\* flags that path or its siblings carry.
C10_ConflictedDominates ==
    (Asked(TRUE) /\ \E i \in InsideQuery : contains(statuses[i].status, "CONFLICTED")) =>
        result.workdir = "Conflicted"

(***************************************************************************)
(* Specification SpecStatus: a raw git2::Status is classified by           *)
(* GitFileStatus::new and by GitStagedStatus::new, and two of the          *)
(* GitStatus values git.rs then holds are compared with the derived Ord.   *)
(***************************************************************************)
\* where git.rs gets a GitStatus value from: the default pair or a field of
\* the classification of raw
Origins == {"default", "index", "workdir"}

staged_value(origin) ==
    IF origin = "default" THEN GitStagedStatus_default.index
    ELSE IF origin = "index" THEN classified.staged.index
    ELSE classified.staged.workdir

Classify ==
    /\ classified = Nil
    /\ classified' = [file |-> GitFileStatus_new(raw), staged |-> GitStagedStatus_new(raw)]
    /\ UNCHANGED <<raw, compared, combined>>
    /\ UNCHANGED cacheVars
    /\ UNCHANGED colorVars

Compare ==
    /\ classified # Nil
    /\ \E a \in Origins, b \in Origins :
        compared' = [a |-> a, b |-> b,
                     ordering |-> cmp(staged_value(a), staged_value(b))]
    /\ UNCHANGED <<raw, classified, combined>>
    /\ UNCHANGED cacheVars
    /\ UNCHANGED colorVars

InitStatus ==
    /\ IdleCache
    /\ IdleColors
    /\ raw \in SUBSET AllFlags
    /\ classified = Nil
    /\ compared = Nil
    /\ combined = Nil

NextStatus == Classify \/ Compare

SpecStatus == InitStatus /\ [][NextStatus]_vars

(***************************************************************************)
(* Properties of classification and order (specification SpecStatus)       *)
(***************************************************************************)
\* the ranking of the ten status kinds, least first
Ranking == <<"Default", "Unmodified", "Ignored", "NewInIndex", "NewInWorkdir",
             "Typechange", "Deleted", "Renamed", "Modified", "Conflicted">>

rank(kind) == CHOOSE i \in DOMAIN Ranking : Ranking[i] = kind

\* the status kind of the value git.rs took from origin
kind_of(origin) ==
    IF origin = "default" THEN GitFileStatus_default.index
    ELSE IF origin = "index" THEN classified.file.index
    ELSE classified.file.workdir

\* C3: the comparison of status values is the strict total order
\* Default < Unmodified < Ignored < New(index) < New(workdir) < Typechange <
\* Deleted < Renamed < Modified < Conflicted: two values compare as their
\* kinds rank, so Default is strictly below Unmodified and New(index)
\* strictly below New(workdir).
C3_OrderIsTheRanking ==
    compared # Nil =>
        /\ compared.ordering = "Less" <=> rank(kind_of(compared.a)) < rank(kind_of(compared.b))
        /\ compared.ordering = "Equal" <=> kind_of(compared.a) = kind_of(compared.b)

\* the classification tables: flag and the status it yields, first match wins
IndexTable ==
    << <<"INDEX_NEW", "NewInIndex">>, <<"INDEX_DELETED", "Deleted">>,
       <<"INDEX_MODIFIED", "Modified">>, <<"INDEX_RENAMED", "Renamed">>,
       <<"INDEX_TYPECHANGE", "Typechange">> >>

WorkdirTable ==
    << <<"WT_NEW", "NewInWorkdir">>, <<"WT_DELETED", "Deleted">>,
       <<"WT_MODIFIED", "Modified">>, <<"WT_RENAMED", "Renamed">>,
       <<"IGNORED", "Ignored">>, <<"WT_TYPECHANGE", "Typechange">>,
       <<"CONFLICTED", "Conflicted">> >>

FirstMatch(table, flags) ==
    LET hits == {i \in DOMAIN table : table[i][1] \in flags}
    IN IF hits = {} THEN "Unmodified"
       ELSE table[CHOOSE i \in hits : \A j \in hits : i <= j][2]

TableFlags(table) == {table[i][1] : i \in DOMAIN table}

\* git.rs names both New statuses New
Unsplit(kind) == IF kind \in {"NewInIndex", "NewInWorkdir"} THEN "New" ELSE kind

\* C4: each side of the classification is the status of the first flag of its
\* table that is set, Unmodified when none is; the flags of the other table
\* do not change it, and it is never Default. GitStagedStatus::new agrees,
\* with New for both New statuses.
C4_ClassificationIsFirstMatch ==
    classified # Nil =>
        /\ classified.file.index = FirstMatch(IndexTable, raw)
        /\ classified.file.workdir = FirstMatch(WorkdirTable, raw)
        /\ classified.file.index = FirstMatch(IndexTable, raw \ TableFlags(WorkdirTable))
        /\ classified.file.workdir = FirstMatch(WorkdirTable, raw \ TableFlags(IndexTable))
        /\ classified.file.index # "Default"
        /\ classified.file.workdir # "Default"
        /\ classified.staged.index = Unsplit(classified.file.index)
        /\ classified.staged.workdir = Unsplit(classified.file.workdir)

\* C4 witness: several flags of each side are set and the first of each table
\* decides
C4_Witness ==
    /\ classified # Nil
    /\ raw = {"INDEX_MODIFIED", "INDEX_RENAMED", "WT_RENAMED", "IGNORED", "CONFLICTED"}
    /\ classified.file = [index |-> "Modified", workdir |-> "Renamed"]

(***************************************************************************)
(* src/color.rs: Elem, Theme, Colors                                       *)
(***************************************************************************)
\* an Elem value: the variant and its fields in declaration order, a bool
\* field written "true" or "false"
Elem(variant, fields) == [elem |-> variant, fields |-> fields]

Elem_GitStatus(status) == Elem("GitStatus", <<status>>)

\* the variants of the GitStatus type that Elem::GitStatus carries, as
\* color.rs and git_file_status.rs name them
GitStatus_iter == <<"Default", "Unmodified", "Ignored", "NewInIndex", "NewInWorkdir",
                    "Typechange", "Deleted", "Renamed", "Modified", "Conflicted">>

StatusKinds == {GitStatus_iter[i] : i \in DOMAIN GitStatus_iter}

\* Elem::iter() of strum::EnumIter: every variant once, in declaration order,
\* its fields at their default values
Elem_iter ==
    << Elem("File", <<"false", "false">>), Elem("SymLink", <<>>), Elem("BrokenSymLink", <<>>),
       Elem("Dir", <<"false">>), Elem("Pipe", <<>>), Elem("BlockDevice", <<>>),
       Elem("CharDevice", <<>>), Elem("Socket", <<>>), Elem("Special", <<>>),
       Elem("Read", <<>>), Elem("Write", <<>>), Elem("Exec", <<>>),
       Elem("ExecSticky", <<>>), Elem("NoAccess", <<>>),
       Elem("DayOld", <<>>), Elem("HourOld", <<>>), Elem("Older", <<>>),
       Elem("User", <<>>), Elem("Group", <<>>),
       Elem("NonFile", <<>>), Elem("FileLarge", <<>>), Elem("FileMedium", <<>>),
       Elem("FileSmall", <<>>),
       Elem("INode", <<"false">>), Elem("Links", <<"false">>),
       Elem("TreeEdge", <<>>),
       Elem_GitStatus(GitFileStatus_default.index) >>

\* Elem::has_suid; uid is the only field of Dir and the second of File
has_suid(e) ==
    \/ e.elem = "Dir" /\ e.fields[1] = "true"
    \/ e.elem = "File" /\ e.fields[2] = "true"

Themes == {"NoColor", "Default", "NoLscolors"}

\* HashMap::insert and HashMap::contains_key on a map kept as a set of
\* <<key, value>> pairs with one pair for a key
insert(m, key, value) == {kv \in m : kv[1] # key} \cup {<<key, value>>}

contains_key(m, key) == \E kv \in m : kv[1] = key

\* the value stored for a key that is present
at(m, key) == (CHOOSE kv \in m : kv[1] = key)[2]

RECURSIVE insert_all(_, _)
insert_all(m, kvs) ==
    IF kvs = <<>> THEN m
    ELSE insert_all(insert(m, Head(kvs)[1], Head(kvs)[2]), Tail(kvs))

\* the inserts of get_light_theme_colour_map before the GitStatus block;
\* the insert of TreeEdge is commented out in the source
ElemInserts ==
    << <<Elem("User", <<>>), "Fixed(230)">>, <<Elem("Group", <<>>), "Fixed(187)">>,
       <<Elem("Read", <<>>), "Green">>, <<Elem("Write", <<>>), "Yellow">>,
       <<Elem("Exec", <<>>), "Red">>, <<Elem("ExecSticky", <<>>), "Purple">>,
       <<Elem("NoAccess", <<>>), "Fixed(245)">>,
       <<Elem("File", <<"false", "false">>), "Fixed(184)">>,
       <<Elem("File", <<"false", "true">>), "Fixed(184)">>,
       <<Elem("File", <<"true", "false">>), "Fixed(40)">>,
       <<Elem("File", <<"true", "true">>), "Fixed(40)">>,
       <<Elem("Dir", <<"true">>), "Fixed(33)">>, <<Elem("Dir", <<"false">>), "Fixed(33)">>,
       <<Elem("Pipe", <<>>), "Fixed(44)">>, <<Elem("SymLink", <<>>), "Fixed(44)">>,
       <<Elem("BrokenSymLink", <<>>), "Fixed(124)">>,
       <<Elem("BlockDevice", <<>>), "Fixed(44)">>,
       <<Elem("CharDevice", <<>>), "Fixed(172)">>,
       <<Elem("Socket", <<>>), "Fixed(44)">>, <<Elem("Special", <<>>), "Fixed(44)">>,
       <<Elem("HourOld", <<>>), "Fixed(40)">>, <<Elem("DayOld", <<>>), "Fixed(42)">>,
       <<Elem("Older", <<>>), "Fixed(36)">>,
       <<Elem("NonFile", <<>>), "Fixed(245)">>, <<Elem("FileSmall", <<>>), "Fixed(229)">>,
       <<Elem("FileMedium", <<>>), "Fixed(216)">>,
       <<Elem("FileLarge", <<>>), "Fixed(172)">>,
       <<Elem("INode", <<"true">>), "Fixed(13)">>, <<Elem("INode", <<"false">>), "Fixed(245)">>,
       <<Elem("Links", <<"true">>), "Fixed(13)">>,
       <<Elem("Links", <<"false">>), "Fixed(245)">> >>

\* a mutated GitStatus block: the insert for Default is missing
GitStatusInsertsWithoutDefault ==
    << <<Elem_GitStatus("Unmodified"), "White">>,
       <<Elem_GitStatus("Ignored"), "Fixed(245)">>,
       <<Elem_GitStatus("NewInIndex"), "Green">>,
       <<Elem_GitStatus("NewInWorkdir"), "White">>,
       <<Elem_GitStatus("Typechange"), "White">>,
       <<Elem_GitStatus("Deleted"), "Red">>,
       <<Elem_GitStatus("Renamed"), "Fixed(172)">>,
       <<Elem_GitStatus("Modified"), "Blue">>,
       <<Elem_GitStatus("Conflicted"), "Red">> >>

\* the inserts of the GitStatus block of get_light_theme_colour_map
GitStatusInserts ==
    << <<Elem_GitStatus("Default"), "White">>,
       <<Elem_GitStatus("Unmodified"), "White">>,
       <<Elem_GitStatus("Ignored"), "Fixed(245)">>,
       <<Elem_GitStatus("NewInIndex"), "Green">>,
       <<Elem_GitStatus("NewInWorkdir"), "White">>,
       <<Elem_GitStatus("Typechange"), "White">>,
       <<Elem_GitStatus("Deleted"), "Red">>,
       <<Elem_GitStatus("Renamed"), "Fixed(172)">>,
       <<Elem_GitStatus("Modified"), "Blue">>,
       <<Elem_GitStatus("Conflicted"), "Red">> >>

get_light_theme_colour_map == insert_all(insert_all({}, ElemInserts), GitStatusInserts)

(***************************************************************************)
(* Styles and painted strings of ansi_term, as far as color.rs and render  *)
(* use them. A Style is its foreground and background, NoneVal when unset; *)
(* a string is a sequence of tokens: <<"glyph", status>>, <<"text", t>>,   *)
(* the escape sequence <<"sgr", fg, bg>> that sets a style, and            *)
(* <<"reset">>.                                                            *)
(***************************************************************************)
Style_default == [fg |-> NoneVal, bg |-> NoneVal]

\* what indexing the palette with a missing key does
Panicked == [fg |-> "panic", bg |-> "panic"]

is_plain(style) == style = Style_default

RESET == <<"reset">>

prefix(style) == IF is_plain(style) THEN <<>> ELSE << <<"sgr", style.fg, style.bg>> >>

suffix(style) == IF is_plain(style) THEN <<>> ELSE <<RESET>>

\* Style::paint, and ColoredString::from for the plain style
paint(style, input) == [style |-> style, string |-> input]

\* Display of one ANSIString
ANSIString_to_string(a) == prefix(a.style) \o a.string \o suffix(a.style)

\* Difference::between of ansi_term for styles of colours only
between(first, next) ==
    IF first = next THEN [diff |-> "NoDifference", style |-> Style_default]
    ELSE IF first.fg # NoneVal /\ next.fg = NoneVal
         THEN [diff |-> "Reset", style |-> Style_default]
    ELSE IF first.bg # NoneVal /\ next.bg = NoneVal
         THEN [diff |-> "Reset", style |-> Style_default]
    ELSE [diff |-> "ExtraStyles",
          style |-> [fg |-> IF first.fg # next.fg THEN next.fg ELSE NoneVal,
                     bg |-> IF first.bg # next.bg THEN next.bg ELSE NoneVal]]

RECURSIVE write_windows(_, _)
write_windows(strings, i) ==
    IF i > Len(strings) THEN <<>>
    ELSE LET d == between(strings[i - 1].style, strings[i].style)
             codes == IF d.diff = "ExtraStyles" THEN prefix(d.style)
                      ELSE IF d.diff = "Reset" THEN <<RESET>> \o prefix(strings[i].style)
                      ELSE <<>>
         IN codes \o strings[i].string \o write_windows(strings, i + 1)

\* Display of ANSIStrings: the strings with the escape sequences between
\* them reduced to the difference of the adjacent styles
ANSIStrings_to_string(strings) ==
    IF strings = <<>> THEN <<>>
    ELSE prefix(strings[1].style) \o strings[1].string \o write_windows(strings, 2)
         \o suffix(strings[Len(strings)].style)

(***************************************************************************)
(* src/color.rs: Colors. self is [colors, lscolors]; colors is Nil or      *)
(* [map |-> palette], lscolors is Nil or [db |-> styles by indicator].     *)
(***************************************************************************)
\* LsColors databases the environment may give: indicator-to-style maps
LsColorsEnvs ==
    { {},
      { <<"di", [fg |-> "Blue", bg |-> NoneVal]>>, <<"ex", [fg |-> "Green", bg |-> NoneVal]>>,
        <<"ln", [fg |-> "Cyan", bg |-> NoneVal]>>, <<"or", [fg |-> "Red", bg |-> "Black"]>> } }

Colors_new(t, env) ==
    [colors |-> IF t = "NoColor" THEN Nil ELSE [map |-> get_light_theme_colour_map],
     lscolors |-> IF t = "Default" THEN [db |-> env] ELSE Nil]

get_indicator_from_elem(e) ==
    IF e.elem = "File" THEN
        IF e.fields[2] = "true" THEN NoneVal
        ELSE IF e.fields[1] = "true" THEN "ex" ELSE "fi"
    ELSE IF e.elem = "Dir" THEN IF e.fields[1] = "true" THEN NoneVal ELSE "di"
    ELSE IF e.elem = "SymLink" THEN "ln"
    ELSE IF e.elem = "Pipe" THEN "pi"
    ELSE IF e.elem = "Socket" THEN "so"
    ELSE IF e.elem = "BlockDevice" THEN "bd"
    ELSE IF e.elem = "CharDevice" THEN "cd"
    ELSE IF e.elem = "BrokenSymLink" THEN "or"
    ELSE IF e.elem = "INode" THEN IF e.fields[1] = "true" THEN "so" ELSE "no"
    ELSE IF e.elem = "Links" THEN IF e.fields[1] = "true" THEN "so" ELSE "no"
    ELSE NoneVal

style_default(self, e) ==
    IF self.colors # Nil THEN
        IF ~contains_key(self.colors.map, e) THEN Panicked
        ELSE LET style_fg == [fg |-> at(self.colors.map, e), bg |-> NoneVal]
             IN IF has_suid(e) THEN [style_fg EXCEPT !.bg = "Fixed(124)"] ELSE style_fg
    ELSE Style_default

style(self, e) ==
    IF self.lscolors # Nil THEN
        LET indicator == get_indicator_from_elem(e)
        IN IF indicator # NoneVal THEN
                IF contains_key(self.lscolors.db, indicator)
                THEN at(self.lscolors.db, indicator)
                ELSE Style_default
           ELSE style_default(self, e)
    ELSE style_default(self, e)

colorize(self, input, e) == paint(style(self, e), input)

(***************************************************************************)
(* src/meta/git_file_status.rs: GitFileStatus::render                      *)
(***************************************************************************)
\* Icons::get_status: the glyph of a status
get_status(status) == << <<"glyph", status>> >>

\* a mutated render: the two glyphs without the space between them
GitFileStatus_render_no_space(self, colours) ==
    LET strings == << colorize(colours, get_status(self.index), Elem_GitStatus(self.index)),
                      colorize(colours, get_status(self.workdir),
                               Elem_GitStatus(self.workdir)) >>
    IN IF \E i \in DOMAIN strings : strings[i].style = Panicked
       THEN paint(Panicked, <<>>)
       ELSE paint(Style_default, ANSIStrings_to_string(strings))

GitFileStatus_render(self, colours) ==
    LET strings == << colorize(colours, get_status(self.index), Elem_GitStatus(self.index)),
                      paint(Style_default, << <<"text", " ">> >>),
                      colorize(colours, get_status(self.workdir),
                               Elem_GitStatus(self.workdir)) >>
    IN IF \E i \in DOMAIN strings : strings[i].style = Panicked
       THEN paint(Panicked, <<>>)
       ELSE paint(Style_default, ANSIStrings_to_string(strings))

(***************************************************************************)
(* Specification SpecColors                                                *)
(***************************************************************************)
GitFileStatusValues == [index : StatusKinds, workdir : StatusKinds]

\* the first element of a sequence of Elem values that the map lacks, for the
\* loops of the two completeness tests
RECURSIVE first_missing(_, _)
first_missing(m, elems) ==
    IF elems = <<>> THEN Nil
    ELSE IF ~contains_key(m, Head(elems)) THEN Head(elems)
    ELSE first_missing(m, Tail(elems))

\* Colors::new(theme), with env the LsColors the environment gives
ColorsNew ==
    /\ theme = NoneVal
    /\ \E t \in Themes, env \in LsColorsEnvs :
        /\ theme' = t
        /\ colors' = Colors_new(t, env).colors
        /\ lscolors' = Colors_new(t, env).lscolors
    /\ UNCHANGED <<tested, rendered>>
    /\ UNCHANGED cacheVars
    /\ UNCHANGED statusVars

\* GitFileStatus::render(colors, icons) on some status pair
Render ==
    /\ theme # NoneVal
    /\ \E self \in GitFileStatusValues :
        rendered' = [status |-> self,
                     out |-> GitFileStatus_render(self, [colors |-> colors,
                                                         lscolors |-> lscolors])]
    /\ UNCHANGED <<theme, colors, lscolors, tested>>
    /\ UNCHANGED cacheVars
    /\ UNCHANGED statusVars

\* tests::test_elem_map_completeness: missing is the element whose assert fails
TestElemMapCompleteness ==
    /\ tested' = [test |-> "test_elem_map_completeness",
                  missing |-> first_missing(get_light_theme_colour_map, Elem_iter)]
    /\ UNCHANGED <<theme, colors, lscolors, rendered>>
    /\ UNCHANGED cacheVars
    /\ UNCHANGED statusVars

\* tests::test_git_status_map_completeness
TestGitStatusMapCompleteness ==
    /\ tested' = [test |-> "test_git_status_map_completeness",
                  missing |-> first_missing(get_light_theme_colour_map,
                                  [i \in DOMAIN GitStatus_iter |->
                                      Elem_GitStatus(GitStatus_iter[i])])]
    /\ UNCHANGED <<theme, colors, lscolors, rendered>>
    /\ UNCHANGED cacheVars
    /\ UNCHANGED statusVars

InitColors == IdleCache /\ IdleStatus /\ IdleColors

NextColors == ColorsNew \/ Render \/ TestElemMapCompleteness \/ TestGitStatusMapCompleteness

SpecColors == InitColors /\ [][NextColors]_vars

(***************************************************************************)
(* Properties of palette and rendering (specification SpecColors)          *)
(***************************************************************************)
\* C6: the palette built for a coloured theme has a colour for every element
\* that Elem::iter() yields, so the loop of test_elem_map_completeness finds
\* no missing entry.
C6_PaletteTotalOverElem ==
    /\ colors # Nil =>
          \A i \in DOMAIN Elem_iter : contains_key(colors.map, Elem_iter[i])
    /\ (tested # Nil /\ tested.test = "test_elem_map_completeness") =>
          tested.missing = Nil

\* C7: the palette has a colour for GitStatus{status: s} for each of the ten
\* status kinds, the loop of test_git_status_map_completeness finds no
\* missing entry, and render never meets a missing palette entry.
C7_PaletteTotalOverStatus ==
    /\ colors # Nil =>
          \A s \in {"Default", "Unmodified", "Ignored", "NewInIndex", "NewInWorkdir",
                    "Typechange", "Deleted", "Renamed", "Modified", "Conflicted"} :
              contains_key(colors.map, Elem_GitStatus(s))
    /\ (tested # Nil /\ tested.test = "test_git_status_map_completeness") =>
          tested.missing = Nil
    /\ rendered # Nil => rendered.out.style # Panicked

\* C7 witness: a pair of the least and the greatest kind has been rendered
\* under a theme with a palette
C7_Witness ==
    /\ theme = "NoLscolors"
    /\ rendered # Nil
    /\ rendered.status = [index |-> "Default", workdir |-> "Conflicted"]
    /\ rendered.out.style = Style_default
    /\ Len(rendered.out.string) = 7

\* the glyph of status painted in the colour palette has for it
Painted(palette, status) ==
    ANSIString_to_string(
        paint([fg |-> at(palette, Elem_GitStatus(status)), bg |-> NoneVal],
              get_status(status)))

Space == << <<"text", " ">> >>

\* C9 as stated: under every theme the rendered string is the index glyph in
\* the palette colour of the index status, one space, and the workdir glyph in
\* the palette colour of the workdir status.
C9_RenderColouredUnderEveryTheme ==
    rendered # Nil =>
        rendered.out.string =
            Painted(get_light_theme_colour_map, rendered.status.index) \o Space
            \o Painted(get_light_theme_colour_map, rendered.status.workdir)

\* C9 amended: under the themes that have a palette (Default, NoLscolors) the
\* rendered string is the index glyph in the palette colour of the index
\* status, one space, and the workdir glyph in the palette colour of the
\* workdir status; under NoColor it is the two glyphs and the space between
\* them with no colouring. Both hold for every pair, {Default, Default}
\* included.
C9_RenderColouredWhenPalette ==
    rendered # Nil =>
        /\ rendered.out.style = Style_default
        /\ rendered.out.string =
              IF theme \in {"Default", "NoLscolors"} THEN
                  Painted(colors.map, rendered.status.index) \o Space
                  \o Painted(colors.map, rendered.status.workdir)
              ELSE get_status(rendered.status.index) \o Space
                   \o get_status(rendered.status.workdir)

\* C9 witness: {Default, Default} rendered under the Default theme
C9_Witness ==
    /\ theme = "Default"
    /\ rendered # Nil
    /\ rendered.status = GitFileStatus_default
    /\ rendered.out.string =
          << <<"sgr", "White", NoneVal>>, <<"glyph", "Default">>, <<"reset">>,
             <<"text", " ">>,
             <<"sgr", "White", NoneVal>>, <<"glyph", "Default">>, <<"reset">> >>

(***************************************************************************)
(* Specification SpecCombine: the closure of the fold of GitCache::get     *)
(* applied to status pairs, beside the cache whose get uses it.            *)
(***************************************************************************)
GitStagedStatusValues == [index : GitStatusValues, workdir : GitStatusValues]

\* the closure applied to a and b in both orders, and to a, b and c in both
\* groupings
Combine ==
    /\ pc = "start"
    /\ combined = Nil
    /\ \E a \in GitStagedStatusValues, b \in GitStagedStatusValues,
          c \in GitStagedStatusValues :
        combined' = [a |-> a, b |-> b, c |-> c,
                     ab |-> combine(a, b), ba |-> combine(b, a),
                     ab_c |-> combine(combine(a, b), c),
                     a_bc |-> combine(a, combine(b, c))]
    /\ UNCHANGED <<raw, classified, compared>>
    /\ UNCHANGED cacheVars
    /\ UNCHANGED colorVars

\* GitCache::new and GitCache::get, in a run where nothing was combined
NewForFold == combined = Nil /\ New

GetByFold == combined = Nil /\ Get

NextCombine == NewForFold \/ GetByFold \/ Combine

SpecCombine == Init /\ [][NextCombine]_vars

(***************************************************************************)
(* Properties of the combine step (specification SpecCombine)              *)
(***************************************************************************)
\* the orders in which n entries can be stored
Orders(n) == {f \in [1..n -> 1..n] : \A i, j \in 1..n : f[i] = f[j] => i = j}

Reordered(stats, f) == [i \in 1..Len(stats) |-> stats[f[i]]]

\* C11: the combine step of the directory fold is commutative and associative
\* over all status pairs, and get(P, true) returns the same pair for every
\* order in which the same entries are stored.
C11_CombineCommutesAndAssociates ==
    /\ combined # Nil =>
          /\ combined.ab = combined.ba
          /\ combined.ab_c = combined.a_bc
    /\ Asked(TRUE) =>
          \A f \in Orders(Len(statuses)) :
              get_directory(Reordered(statuses, f), query.filepath) = result

\* C11 witness: three pairs none of which dominates another have been
\* combined
C11_Witness ==
    /\ combined # Nil
    /\ combined.a = [index |-> "New", workdir |-> "Modified"]
    /\ combined.b = [index |-> "Modified", workdir |-> "Ignored"]
    /\ combined.c = [index |-> "Unmodified", workdir |-> "Conflicted"]
    /\ combined.ab = [index |-> "Modified", workdir |-> "Modified"]
    /\ combined.ab_c = [index |-> "Modified", workdir |-> "Conflicted"]

====
